---- MODULE Spec2Model ----
(***************************************************************************)
(* A model of the database agent: DatabaseAgent.execute (the plan          *)
(* orchestrator), DatabaseAgent.executeStep (the step executor),           *)
(* FileWriter (backup, write, aggregate index merge, component update)     *)
(* and the plan source's parseResponse / enhanceWithFilePaths.             *)
(*                                                                         *)
(* Text (file contents, paths, names) is a sequence of one-token strings,  *)
(* so that String.includes is a real contiguous-subsequence test and       *)
(* template literals are concatenations.                                   *)
(***************************************************************************)
EXTENDS Integers, Sequences, FiniteSets, TLC

\* ------------------------------------------------------------------ bounds

\* Longest plan the plan source returns in the model.
MaxSteps == 2
\* Largest value Date.now() takes in the model (milliseconds since its start).
MaxClock == 1
\* Number of FileWriter calls made directly in the FileWriter-level specification.
MaxCalls == 3
\* Number of execute calls made on one agent in the specification of several calls.
MaxRuns == 2

\* ------------------------------------------------------------------- text

\* String.prototype.includes: sub occurs in s as a contiguous run.
Includes(s, sub) ==
  \E k \in 0..(Len(s) - Len(sub)) : SubSeq(s, k + 1, k + Len(sub)) = sub

\* Number of (possibly overlapping) occurrences of sub in s.
Occurrences(s, sub) ==
  Cardinality({k \in 0..(Len(s) - Len(sub)) : SubSeq(s, k + 1, k + Len(sub)) = sub})

\* Table names of the model: "a", "ba" (one a suffix of the other).
TableA == <<"a">>
TableBA == <<"b", "a">>
TableNames == {TableA, TableBA}

\* `${undefined}` inside a template literal.
Undefined == <<"undefined">>

\* ------------------------------------------------------------------ paths

\* Tokens that end a directory part of a path.
DirTokens == {"src/database/", "schemas/", "src/app/api/", "src/components/", "/"}

IndexPath == <<"src/database/", "schema", ".ts">>
SchemaPath(tableName) == <<"src/database/", "schemas/">> \o tableName \o <<".ts">>
ApiPath(endpoint) == <<"src/app/api/">> \o endpoint \o <<"/", "route", ".ts">>
Comp1 == <<"src/components/", "c1", ".tsx">>
Comp2 == <<"src/components/", "c2", ".tsx">>
EndpointE == <<"e">>

Paths ==
  {IndexPath, Comp1, Comp2, ApiPath(EndpointE), ApiPath(Undefined), SchemaPath(Undefined)}
    \cup {SchemaPath(t) : t \in TableNames}

\* path.basename: what follows the last directory separator.
RECURSIVE LastSlash(_, _)
LastSlash(p, k) ==
  IF k = 0 THEN 0
  ELSE IF p[k] \in DirTokens THEN k ELSE LastSlash(p, k - 1)

Basename(p) == SubSeq(p, LastSlash(p, Len(p)) + 1, Len(p))

Basenames == {Basename(p) : p \in Paths}

\* A backup path: `${Date.now()}-${path.basename(filePath)}` in .agent-backups.
BackupPath(now, filePath) == <<now, Basename(filePath)>>
BackupPaths == (0..MaxClock) \X Basenames

\* ------------------------------------------------------------------ files

Absent == [exists |-> FALSE, content |-> <<>>]
File(c) == [exists |-> TRUE, content |-> c]


\* --------------------------------------------------- FileWriter: templates

\* FileWriter.capitalize: the first character upper-cased.
UpperChar(ch) ==
  CASE ch = "a" -> "A"
    [] ch = "b" -> "B"
    [] ch = "c1" -> "C1"
    [] ch = "c2" -> "C2"
    [] ch = "undefined" -> "Undefined"
    [] OTHER -> ch

capitalize(str) == IF str = <<>> THEN <<>> ELSE <<UpperChar(str[1])>> \o Tail(str)

\* DatabaseAgent.mapColumnType: the drizzle column expression of a column type.
mapColumnType(type) ==
  CASE type = "string" -> "varchar(\"string\", { length: 255 })"
    [] type = "text" -> "text(\"text\")"
    [] type = "number" -> "integer(\"number\")"
    [] type = "integer" -> "integer(\"integer\")"
    [] type = "boolean" -> "boolean(\"boolean\").default(false)"
    [] type = "date" -> "timestamp(\"date\")"
    [] type = "datetime" -> "timestamp(\"datetime\")"
    [] OTHER -> "varchar(\"other\", { length: 255 })"

\* The column lines of a schema file, one per column of the definition.
RECURSIVE ColumnLines(_)
ColumnLines(columns) ==
  IF columns = <<>> THEN <<>>
  ELSE <<"  ", columns[1].name, ": ", columns[1].type, ",\n">> \o ColumnLines(Tail(columns))

\* FileWriter.generateSchemaFile. schema = [tableName, columns]; relationships is
\* always the empty list here, so only the "// Relationships" heading follows.
generateSchemaFile(schema) ==
  <<"import { pgTable, ... } from \"drizzle-orm/pg-core\";\n\n", "export const ">>
    \o schema.tableName \o <<" = pgTable(\"">> \o schema.tableName \o <<"\", {\n">>
    \o <<"  ", "id", ": ", "serial(\"id\").primaryKey()", ",\n">>
    \o ColumnLines(schema.columns)
    \o <<"  ", "createdAt", ": ", "timestamp(\"created_at\").defaultNow().notNull()", ",\n">>
    \o <<"  ", "updatedAt", ": ", "timestamp(\"updated_at\").defaultNow().notNull()", ",\n">>
    \o <<"});\n", "\n// Relationships\n">>

\* One generated handler of an API route.
Handler(method, tableName) ==
  <<"export async function ", method, "(request: NextRequest) { ... ">> \o tableName \o <<" ... }\n">>

\* Array.prototype.includes on a list of method names.
HasMethod(methods, m) == \E k \in 1..Len(methods) : methods[k] = m

\* FileWriter.generateApiRoute. api = [endpoint, methods, tableName].
generateApiRoute(api) ==
  <<"import { NextRequest, NextResponse } from \"next/server\";\n", "import { ">>
    \o api.tableName \o <<" } from \"@/database/schema\";\n">>
    \o (IF HasMethod(api.methods, "GET") \/ HasMethod(api.methods, "PUT")
           \/ HasMethod(api.methods, "DELETE")
        THEN <<"import { eq } from \"drizzle-orm\";\n">> ELSE <<>>)
    \o (IF HasMethod(api.methods, "GET") THEN Handler("GET", api.tableName) ELSE <<>>)
    \o (IF HasMethod(api.methods, "POST") THEN Handler("POST", api.tableName) ELSE <<>>)
    \o (IF HasMethod(api.methods, "PUT") THEN Handler("PUT", api.tableName) ELSE <<>>)
    \o (IF HasMethod(api.methods, "DELETE") THEN Handler("DELETE", api.tableName) ELSE <<>>)

\* The react import line, without and with useEffect.
ImportUseState == <<"import { ", "useState", " } from \"react\";">>
ImportUseStateEffect == <<"import { ", "useState", ", ", "useEffect", " } from \"react\";">>
\* A component entry the regex /(const\s+\w+\s*=\s*\(\)\s*=>\s*{)/ matches.
ComponentMarker == <<"const Component = () => {">>

\* The fetchHook template of generateComponentUpdate.
fetchHook(endpoint, tableName) ==
  <<"\n  const [">> \o tableName \o <<"Data", ", set">> \o capitalize(tableName)
    \o <<"Data", "] = ", "useState", "([]);\n", "  const [loading, setLoading] = ", "useState",
         "(false);\n", "  const fetch">> \o capitalize(tableName)
    \o <<" = async () => {", " fetch('/api/">> \o endpoint \o <<"'); set">>
    \o capitalize(tableName) \o <<"Data", "(data); 'Failed to fetch ">> \o tableName
    \o <<":' };\n", "  ", "useEffect", "(() => { fetch">> \o capitalize(tableName)
    \o <<"(); }, []);">>

\* Index (0-based) of the first occurrence of sub in s, or -1 (String.indexOf).
RECURSIVE IndexFrom(_, _, _)
IndexFrom(s, sub, k) ==
  IF k + Len(sub) > Len(s) THEN -1
  ELSE IF SubSeq(s, k + 1, k + Len(sub)) = sub THEN k
  ELSE IndexFrom(s, sub, k + 1)

IndexOf(s, sub) == IndexFrom(s, sub, 0)

\* String.prototype.replace with a string pattern: the first occurrence only.
ReplaceFirst(s, sub, by) ==
  LET k == IndexOf(s, sub) IN
    IF k < 0 THEN s
    ELSE SubSeq(s, 1, k) \o by \o SubSeq(s, k + Len(sub) + 1, Len(s))

\* The import line the regex /(import.*{[^}]*useState[^}]*}.*from.*react.*)/
\* matches first: one of the two import shapes, whichever comes first; <<>> if none.
StateImportMatch(code) ==
  LET k1 == IndexOf(code, ImportUseState)
      k2 == IndexOf(code, ImportUseStateEffect)
  IN  IF k1 < 0 /\ k2 < 0 THEN <<>>
      ELSE IF k2 < 0 \/ (k1 >= 0 /\ k1 < k2) THEN ImportUseState
      ELSE ImportUseStateEffect

\* A mutant of HasTableData: the test for the table's state never finds it.
HasTableData_Never(existingCode, tableName) == FALSE

\* existingCode.includes(`${tableName}Data`).
HasTableData(existingCode, tableName) == Includes(existingCode, tableName \o <<"Data">>)

\* FileWriter.generateComponentUpdate.
generateComponentUpdate(existingCode, endpoint, tableName) ==
  IF Includes(existingCode, <<"useState">>)
       /\ ~HasTableData(existingCode, tableName)
  THEN
    LET importLine == StateImportMatch(existingCode)
        code1 == IF importLine # <<>> /\ ~Includes(importLine, <<"useEffect">>)
                 THEN ReplaceFirst(existingCode, importLine,
                                   ReplaceFirst(importLine, <<"useState">>,
                                                <<"useState", ", ", "useEffect">>))
                 ELSE existingCode
        at == IndexOf(code1, ComponentMarker)
    IN  IF at >= 0
        THEN LET insertPoint == at + Len(ComponentMarker) IN
               SubSeq(code1, 1, insertPoint) \o fetchHook(endpoint, tableName)
                 \o SubSeq(code1, insertPoint + 1, Len(code1))
        ELSE code1
  ELSE existingCode

\* FileWriter.getComponentNameFromPath: the base name without ".tsx", capitalised.
getComponentNameFromPath(componentPath) ==
  LET base == Basename(componentPath)
      fileName == IF base # <<>> /\ base[Len(base)] = ".tsx"
                  THEN SubSeq(base, 1, Len(base) - 1) ELSE base
  IN  capitalize(fileName)

\* FileWriter.generateNewComponent.
generateNewComponent(componentName, endpoint, tableName) ==
  <<"\"use client\";\n">> \o ImportUseStateEffect
    \o <<"interface ">> \o capitalize(tableName) \o <<"Item { ... }\n", "export default function ">>
    \o componentName \o <<"() {\n", "  const [">> \o tableName \o <<"Data", ", set">>
    \o capitalize(tableName) \o <<"Data", "] = ", "useState", "([]);\n", " fetch('/api/">>
    \o endpoint \o <<"');\n", "  ", "useEffect", "(() => { ... }, []);\n", "}">>


\* ------------------------------------------------------------------ state

VARIABLES
  pc,             \* where execute is: idle, analyze, plan, steps, returned, exited
  request,        \* the AgentRequest of the call: skipAnalysis, skipMigration
  agentContext,   \* DatabaseAgent.projectContext: 0 when unset, else a snapshot
  plan,           \* executionPlan.steps
  i,              \* the loop index of execute, 1-based: the next step to dispatch
  needsMigration, \* the local flag of execute
  result,         \* the AgentResult under construction, then returned
  fs,             \* the project's files: path -> [exists, content]
  backups,        \* the files of .agent-backups: backup path -> [exists, content]
  clock,          \* Date.now()
  unwritable,     \* the paths fs.writeFile rejects (permissions)
  backupDirOK,    \* whether .agent-backups can be created and written
  fatal,          \* which fatal failure ended the call: none, analysis, plan
  dispatched,     \* history: the indices of the steps handed to executeStep, in order
  migrationRuns,  \* history: how often the drizzle-kit procedure was started
  planCalls,      \* history: how often generateExecutionPlan was called
  planContext,    \* history: the context passed to the last generateExecutionPlan
  writeLog,       \* history: one record per fs.writeFile of a project file
  lastResponse,   \* history: the response the plan source last gave
  calls,          \* FileWriter-level specification: direct calls made so far
  fwHist,         \* FileWriter-level specification: history of the index merges
  stepLog,        \* history: for each dispatched step, whether it threw and wrote
  backupsTaken,   \* history: the number of backup copies made so far
  cli,            \* runCommand: its position and its dry-run flag
  runs            \* the number of execute calls that have ended on this agent

vars ==
  <<pc, request, agentContext, plan, i, needsMigration, result, fs, backups, clock,
    unwritable, backupDirOK, fatal, dispatched, migrationRuns, planCalls, planContext,
    writeLog, lastResponse, calls, fwHist, stepLog, backupsTaken, cli, runs>>

\* ------------------------------------------------ FileWriter: file mutation

\* A world is what a FileWriter call reads and changes:
\*   fs, backups, clock, log (the write records), taken (the count of backup
\*   copies made), and ticks: for each coming Date.now() read, by how much the
\*   clock has advanced since the previous one.
World(f, b, c, t, l, n) ==
  [fs |-> f, backups |-> b, clock |-> c, ticks |-> t, log |-> l, taken |-> n]

\* The outcome of a call: the world it leaves, and whether it threw.
Done(w) == [w |-> w, threw |-> FALSE, msg |-> <<>>]
Threw(w, msg) == [w |-> w, threw |-> TRUE, msg |-> msg]

Min(a, b) == IF a < b THEN a ELSE b

\* FileWriter.backupFile: the backup path is computed from Date.now() first; an
\* absent source, or a backup directory that cannot be written, is swallowed.
backupFile(w, filePath) ==
  LET now == Min(w.clock + (IF w.ticks = <<>> THEN 0 ELSE Head(w.ticks)), MaxClock)
      w1 == [w EXCEPT !.clock = now, !.ticks = IF w.ticks = <<>> THEN <<>> ELSE Tail(w.ticks)]
      backupPath == BackupPath(now, filePath)
  IN  IF w.fs[filePath].exists /\ backupDirOK
      THEN [w1 EXCEPT !.backups[backupPath] = w.fs[filePath], !.taken = @ + 1]
      ELSE w1

\* Whether some backup of filePath holds the content `prior`.
HasBackupOf(bk, filePath, prior) ==
  \E bp \in BackupPaths : bp[2] = Basename(filePath) /\ bk[bp] = File(prior)

\* FileWriter.writeFile for type create/update (the agent never deletes).
\* operation = [filePath, content, backup].
writeFile(w, operation) ==
  LET w1 == IF operation.backup THEN backupFile(w, operation.filePath) ELSE w
      prior == w1.fs[operation.filePath]
      entry == [path |-> operation.filePath,
                existed |-> prior.exists,
                backedUp |-> HasBackupOf(w1.backups, operation.filePath, prior.content)]
  IN  IF operation.content = <<>> THEN Threw(w1, <<"Content required for create/update">>)
      ELSE IF operation.filePath \in unwritable THEN Threw(w1, <<"EACCES: permission denied">>)
      ELSE Done([w1 EXCEPT !.fs[operation.filePath] = File(operation.content),
                           !.log = @ \cup {entry}])

\* The reference line of a table in the aggregate index.
exportLine(tableName) == <<"export * from \"./schemas/">> \o tableName \o <<"\";">>

\* The mutant of updateMainSchema's test: the line is appended unconditionally.
AlreadyReferenced_Always(existingContent, tableName) == FALSE

\* updateMainSchema's test: existingContent.includes(exportLine).
AlreadyReferenced(existingContent, tableName) ==
  Includes(existingContent, exportLine(tableName))

\* A mutant of WithExportLine: the reference line is put first.
WithExportLine_Prepended(existingContent, tableName) ==
  exportLine(tableName) \o <<"\n">> \o existingContent

\* updatedContent = existingContent + "\n" + exportLine.
WithExportLine(existingContent, tableName) ==
  existingContent \o <<"\n">> \o exportLine(tableName)

\* FileWriter.updateMainSchema: every failure (index absent, write rejected) is
\* swallowed; what was done before the failure (the backup) stays done.
updateMainSchema(w, tableName) ==
  IF ~w.fs[IndexPath].exists THEN w
  ELSE LET existingContent == w.fs[IndexPath].content IN
    IF AlreadyReferenced(existingContent, tableName) THEN w
    ELSE writeFile(w, [filePath |-> IndexPath,
                       content |-> WithExportLine(existingContent, tableName),
                       backup |-> TRUE]).w

\* A mutant of createSchema: the index is updated first, the definition file
\* written after it.
createSchema_IndexFirst(w, schema) ==
  writeFile(updateMainSchema(w, schema.tableName),
            [filePath |-> SchemaPath(schema.tableName),
             content |-> generateSchemaFile(schema),
             backup |-> TRUE])

\* FileWriter.createSchema: the definition file, then the index.
createSchema(w, schema) ==
  LET r == writeFile(w, [filePath |-> SchemaPath(schema.tableName),
                         content |-> generateSchemaFile(schema),
                         backup |-> TRUE])
  IN  IF r.threw THEN r ELSE Done(updateMainSchema(r.w, schema.tableName))

\* FileWriter.createApiRoute.
createApiRoute(w, api) ==
  writeFile(w, [filePath |-> ApiPath(api.endpoint),
                content |-> generateApiRoute(api),
                backup |-> TRUE])

\* FileWriter.updateComponent: read, regenerate, write back; every failure is
\* caught and only warned about.
updateComponent(w, componentPath, endpoint, tableName) ==
  IF ~w.fs[componentPath].exists THEN w
  ELSE writeFile(w, [filePath |-> componentPath,
                     content |-> generateComponentUpdate(w.fs[componentPath].content,
                                                         endpoint, tableName),
                     backup |-> TRUE]).w

\* FileWriter.createComponent: written with backup: false.
createComponent(w, componentPath, endpoint, tableName) ==
  writeFile(w, [filePath |-> componentPath,
                content |-> generateNewComponent(getComponentNameFromPath(componentPath),
                                                 endpoint, tableName),
                backup |-> FALSE])


\* -------------------------------------------------------------- plan steps

\* A step as the plan source's payload gives it. hasDetails: the payload has a
\* details object; has: the fields that object defines.
RawStep(type, has, tableName, columns, componentPaths) ==
  [type |-> type, hasDetails |-> TRUE, has |-> has, tableName |-> tableName,
   columns |-> columns, endpoint |-> EndpointE, componentPaths |-> componentPaths]

ColumnX == [name |-> "x", type |-> "integer"]

SchemaStep(tableName) ==
  RawStep("create_schema", {"tableName", "columns"}, tableName, <<ColumnX>>, <<>>)
\* A create_schema step whose details lack the columns.
SchemaStepNoColumns == RawStep("create_schema", {"tableName"}, TableA, <<>>, <<>>)
ApiStep == RawStep("create_api", {"endpoint", "tableName"}, TableA, <<>>, <<>>)
UpdateStep ==
  RawStep("update_component", {"componentPaths", "endpoint", "tableName"}, TableA, <<>>,
          <<Comp2, Comp1>>)
CreateStep ==
  RawStep("create_component", {"componentPaths", "endpoint", "tableName"}, TableA, <<>>,
          <<Comp2, Comp1>>)
MigrationStep == RawStep("run_migration", {}, <<>>, <<>>, <<>>)
AnalyzeStep == RawStep("analyze_project", {}, <<>>, <<>>, <<>>)
\* A step whose kind is outside the ExecutionStep union.
UnknownStep == RawStep("drop_table", {"tableName"}, TableA, <<>>, <<>>)
\* A create_schema step with no details object at all.
SchemaStepNoDetails == [SchemaStepNoColumns EXCEPT !.hasDetails = FALSE, !.has = {}]
\* A run_migration step with no details object at all.
MigrationStepNoDetails == [MigrationStep EXCEPT !.hasDetails = FALSE]
\* step.type of a payload step that has no type, as a template literal renders it.
MissingType == "undefined"
\* A payload step with details and no type.
StepNoType == RawStep(MissingType, {"tableName"}, TableA, <<>>, <<>>)

StepPool ==
  {SchemaStep(TableA), SchemaStep(TableBA), SchemaStepNoColumns, ApiStep, UpdateStep,
   CreateStep, MigrationStep, AnalyzeStep, UnknownStep}

\* step.details.<field>, rendered in a template literal.
TableNameOf(step) == IF "tableName" \in step.has THEN step.tableName ELSE Undefined
EndpointOf(step) == IF "endpoint" \in step.has THEN step.endpoint ELSE Undefined

\* ------------------------------------------------------------ plan source

\* A mutant of enhanceWithFilePaths: the component kinds derive no path.
enhanceWithFilePaths_NoComponents(step) ==
  LET none == [threw |-> FALSE, files |-> <<>>] IN
  IF step.type \in {"create_schema", "create_api", "update_component", "create_component"}
       /\ ~step.hasDetails
  THEN [threw |-> TRUE, files |-> <<>>]
  ELSE CASE step.type = "create_schema" ->
              IF "tableName" \in step.has
              THEN [threw |-> FALSE, files |-> <<SchemaPath(step.tableName)>>] ELSE none
         [] step.type = "create_api" ->
              IF "endpoint" \in step.has
              THEN [threw |-> FALSE, files |-> <<ApiPath(step.endpoint)>>] ELSE none
         [] OTHER -> none

\* enhanceWithFilePaths (the path deriver): reads step.details.<field>, which
\* throws a TypeError when the payload step of a file-producing kind has no details.
enhanceWithFilePaths(step) ==
  LET none == [threw |-> FALSE, files |-> <<>>] IN
  IF step.type \in {"create_schema", "create_api", "update_component", "create_component"}
       /\ ~step.hasDetails
  THEN [threw |-> TRUE, files |-> <<>>]
  ELSE CASE step.type = "create_schema" ->
              IF "tableName" \in step.has
              THEN [threw |-> FALSE, files |-> <<SchemaPath(step.tableName)>>] ELSE none
         [] step.type = "create_api" ->
              IF "endpoint" \in step.has
              THEN [threw |-> FALSE, files |-> <<ApiPath(step.endpoint)>>] ELSE none
         [] step.type \in {"update_component", "create_component"} ->
              IF "componentPaths" \in step.has
              THEN [threw |-> FALSE, files |-> step.componentPaths] ELSE none
         [] OTHER -> none

\* The step parseResponse builds from a payload step: details defaults to {}.
ParsedStep(step) ==
  [type |-> step.type, hasDetails |-> TRUE, has |-> step.has, tableName |-> step.tableName,
   columns |-> step.columns, endpoint |-> step.endpoint,
   componentPaths |-> step.componentPaths, files |-> enhanceWithFilePaths(step).files]

\* A response of the model: kind is apiError (generateContent rejected), noJson
\* (no {...} in the text), badJson (JSON.parse throws) or json; description and
\* stepsIsArray say what the parsed object holds; steps are its steps.
Response(kind, description, stepsIsArray, steps) ==
  [kind |-> kind, description |-> description, stepsIsArray |-> stepsIsArray, steps |-> steps]

\* A mutant of parseResponse: the check of description and steps is left out.
parseResponse_Unchecked(response) ==
  IF response.kind = "json"
  THEN [ok |-> TRUE,
        steps |-> [k \in 1..Len(response.steps) |-> ParsedStep(response.steps[k])],
        msg |-> <<>>]
  ELSE [ok |-> FALSE, steps |-> <<>>, msg |-> <<"AI processing failed: ", "fetch failed">>]

\* parseResponse inside generateExecutionPlan: ok with the plan's steps, or the
\* message of the error thrown.
parseResponse(response) ==
  LET fail(m) == [ok |-> FALSE, steps |-> <<>>,
                  msg |-> <<"AI processing failed: ", "Failed to parse AI response: ", m>>] IN
  CASE response.kind = "apiError" ->
         [ok |-> FALSE, steps |-> <<>>, msg |-> <<"AI processing failed: ", "fetch failed">>]
    [] response.kind = "noJson" -> fail("No JSON found in response")
    [] response.kind = "badJson" -> fail("Unexpected token")
    [] OTHER ->
         IF ~response.description \/ ~response.stepsIsArray
         THEN fail("Invalid plan structure")
         ELSE IF \E k \in 1..Len(response.steps) : enhanceWithFilePaths(response.steps[k]).threw
         THEN fail("Cannot read properties of undefined")
         ELSE [ok |-> TRUE,
               steps |-> [k \in 1..Len(response.steps) |-> ParsedStep(response.steps[k])],
               msg |-> <<>>]

\* Sequences over S of length at most n.
SeqUpTo(S, n) == UNION {[1..m -> S] : m \in 0..n}

\* The responses the plan source gives in the model.
Responses ==
  {Response("apiError", FALSE, FALSE, <<>>),
   Response("noJson", FALSE, FALSE, <<>>),
   Response("badJson", FALSE, FALSE, <<>>),
   Response("json", FALSE, TRUE, <<MigrationStep>>),
   Response("json", TRUE, FALSE, <<>>),
   Response("json", TRUE, TRUE, <<SchemaStepNoDetails>>),
   Response("json", TRUE, TRUE, <<MigrationStepNoDetails>>),
   Response("json", TRUE, TRUE, <<StepNoType>>)}
    \cup {Response("json", TRUE, TRUE, steps) : steps \in SeqUpTo(StepPool, MaxSteps)}


\* ---------------------------------------------------------- step executor

\* FileWriter.runMigration / migrateCommand start the same external procedure
\* (drizzle-kit generate, then push); migs counts the starts.
StepDone(w, files, migs) == [w |-> w, threw |-> FALSE, msg |-> <<>>, files |-> files, migs |-> migs]
StepThrew(w, msg, migs) == [w |-> w, threw |-> TRUE, msg |-> msg, files |-> <<>>, migs |-> migs]

\* DatabaseAgent.parseSchemaFromStep: columns.map throws when details has no columns.
parseSchemaFromStep(step) ==
  [tableName |-> TableNameOf(step),
   columns |-> [k \in 1..Len(step.columns) |->
                  [name |-> step.columns[k].name, type |-> mapColumnType(step.columns[k].type)]]]

\* DatabaseAgent.parseApiFromStep: methods defaults to GET, POST.
parseApiFromStep(step) ==
  [endpoint |-> EndpointOf(step), methods |-> <<"GET", "POST">>, tableName |-> TableNameOf(step)]

\* The loop of the update_component case: updateComponent never throws.
RECURSIVE UpdateAll(_, _, _, _)
UpdateAll(w, componentPaths, endpoint, tableName) ==
  IF componentPaths = <<>> THEN w
  ELSE UpdateAll(updateComponent(w, componentPaths[1], endpoint, tableName),
                 Tail(componentPaths), endpoint, tableName)

\* The loop of the create_component case: the first createComponent that throws
\* ends it, the files written before it stay written.
RECURSIVE CreateAll(_, _, _, _)
CreateAll(w, componentPaths, endpoint, tableName) ==
  IF componentPaths = <<>> THEN Done(w)
  ELSE LET r == createComponent(w, componentPaths[1], endpoint, tableName) IN
         IF r.threw THEN r
         ELSE CreateAll(r.w, Tail(componentPaths), endpoint, tableName)

\* A mutant of UnknownKind: a step of no known kind is skipped in silence.
UnknownKind_Skipped(w, step) == StepDone(w, <<>>, 0)

\* The default case of executeStep's switch: throw new Error(`Unknown step type: ...`).
UnknownKind(w, step) == StepThrew(w, <<"Unknown step type: ", step.type>>, 0)

\* DatabaseAgent.executeStep. migrationOK: whether drizzle-kit succeeds if started.
executeStep(w, step, migrationOK) ==
  CASE step.type = "create_schema" ->
         IF "columns" \notin step.has
         THEN StepThrew(w, <<"Cannot read properties of undefined (reading 'map')">>, 0)
         ELSE LET schema == parseSchemaFromStep(step)
                  r == createSchema(w, schema)
              IN  IF r.threw THEN StepThrew(r.w, r.msg, 0)
                  ELSE StepDone(r.w, <<SchemaPath(schema.tableName)>>, 0)
    [] step.type = "create_api" ->
         LET api == parseApiFromStep(step)
             r == createApiRoute(w, api)
         IN  IF r.threw THEN StepThrew(r.w, r.msg, 0)
             ELSE StepDone(r.w, <<ApiPath(api.endpoint)>>, 0)
    [] step.type = "update_component" ->
         IF "componentPaths" \notin step.has
         THEN StepThrew(w, <<"componentPaths is not iterable">>, 0)
         ELSE StepDone(UpdateAll(w, step.componentPaths, EndpointOf(step), TableNameOf(step)),
                       step.componentPaths, 0)
    [] step.type = "create_component" ->
         IF "componentPaths" \notin step.has
         THEN StepThrew(w, <<"newComponentPaths is not iterable">>, 0)
         ELSE LET r == CreateAll(w, step.componentPaths, EndpointOf(step), TableNameOf(step))
              IN  IF r.threw THEN StepThrew(r.w, r.msg, 0)
                  ELSE StepDone(r.w, step.componentPaths, 0)
    [] step.type = "run_migration" ->
         IF migrationOK THEN StepDone(w, <<>>, 1)
         ELSE StepThrew(w, <<"Migration failed: ", "Command failed">>, 1)
    [] OTHER -> UnknownKind(w, step)

\* ----------------------------------------------------------- orchestrator

\* The result execute starts from.
InitialResult ==
  [success |-> FALSE, steps |-> <<>>, files |-> <<>>, errors |-> <<>>,
   projectContext |-> 0, migrationCompleted |-> FALSE]

\* The outer catch of execute: errors is replaced by the one message.
FatalResult(res, errorMsg) == [res EXCEPT !.errors = <<errorMsg>>]

\* A mutant of ResultSteps: the assignment to result.steps is left out.
ResultSteps_Unassigned(steps) == <<>>

\* result.steps = executionPlan.steps.
ResultSteps(steps) == steps

\* A mutant of StepFailed: the message is put in front of the earlier ones.
StepFailed_Prepend(res, step, errorMsg) ==
  [res EXCEPT !.errors = <<(<<"Step ", step.type, " failed: ">> \o errorMsg)>> \o @]

\* The catch of the step loop: one formatted message is appended.
StepFailed(res, step, errorMsg) ==
  [res EXCEPT !.errors = Append(@, <<"Step ", step.type, " failed: ">> \o errorMsg)]

\* A mutant of PushFiles: the paths of the step replace the ones collected so far.
PushFiles_Replace(res, files) == [res EXCEPT !.files = files]

\* result.files.push(...files) after a step that returned.
PushFiles(res, files) == [res EXCEPT !.files = @ \o files]

\* A mutant of AfterStepFailure: a step that throws ends the loop.
AfterStepFailure_Abort(index, length) == length + 1

\* The loop index after a step that threw: the catch falls through to i++.
AfterStepFailure(index, length) == index + 1

\* A mutant of NeedsMigrationAfter: the flag follows the last completed step only.
NeedsMigrationAfter_LastStep(flag, step) == step.type \in {"create_schema", "run_migration"}

\* if (step.type === "create_schema" || step.type === "run_migration") needsMigration = true.
NeedsMigrationAfter(flag, step) == flag \/ step.type \in {"create_schema", "run_migration"}

\* A mutant of ComputeSuccess: success also asks for a completed migration.
ComputeSuccess_WithMigration(res) == Len(res.errors) = 0 /\ res.migrationCompleted

\* result.success = (result.errors?.length || 0) === 0.
ComputeSuccess(res) == Len(res.errors) = 0

TheWorld(ticks) == World(fs, backups, clock, ticks, writeLog, backupsTaken)

\* The ways the clock can advance over the Date.now() reads of one step.
Ticks == [1..2 -> 0..1]
NoTicks == [k \in 1..2 |-> 0]
\* The clock is followed up to MaxClock: the advances that stay within it.
WithinClock(ticks) == clock + ticks[1] + ticks[2] <= MaxClock
\* The step kinds whose writes ask for a backup.
BackupKinds == {"create_schema", "create_api", "update_component"}

\* A mutant of AnalysisFailureTarget: the failure is logged and execute goes on.
AnalysisFailureTarget_Continue == "plan"

\* Where execute goes when analyzeProject rejects: the inner catch rethrows, the
\* outer catch returns the result.
AnalysisFailureTarget == "returned"

\* A call of execute on the agent.
Execute(req) ==
  /\ pc = "idle"
  /\ request' = req
  /\ result' = InitialResult
  /\ pc' = IF req.skipAnalysis THEN "plan" ELSE "analyze"
  /\ UNCHANGED <<agentContext, plan, i, needsMigration, fs, backups, clock, unwritable,
                 backupDirOK, fatal, dispatched, migrationRuns, planCalls, planContext,
                 writeLog, lastResponse, calls, fwHist,
                 stepLog, backupsTaken, cli, runs>>

\* The snapshot analyzeProject builds in a call after `ended` earlier calls: the
\* snapshots of different calls are told apart; 0 stands for no snapshot.
SnapshotOf(ended) == ended + 1

\* await analyzeProject() resolves: the snapshot is kept on the agent and the result.
AnalyzeOK ==
  /\ pc = "analyze"
  /\ agentContext' = SnapshotOf(runs)
  /\ result' = [result EXCEPT !.projectContext = SnapshotOf(runs)]
  /\ pc' = "plan"
  /\ UNCHANGED <<request, plan, i, needsMigration, fs, backups, clock, unwritable,
                 backupDirOK, fatal, dispatched, migrationRuns, planCalls, planContext,
                 writeLog, lastResponse, calls, fwHist,
                 stepLog, backupsTaken, cli, runs>>

\* await analyzeProject() rejects: rethrown, caught by the outer catch.
AnalyzeFail ==
  /\ pc = "analyze"
  /\ result' = FatalResult(result, <<"Project analysis failed: ", "EIO">>)
  /\ fatal' = "analysis"
  /\ pc' = AnalysisFailureTarget
  /\ UNCHANGED <<request, agentContext, plan, i, needsMigration, fs, backups, clock,
                 unwritable, backupDirOK, dispatched, migrationRuns, planCalls, planContext,
                 writeLog, lastResponse, calls, fwHist,
                 stepLog, backupsTaken, cli, runs>>

\* await generateExecutionPlan(query, this.projectContext).
Plan(response) ==
  /\ pc = "plan"
  /\ planCalls' = planCalls + 1
  /\ planContext' = agentContext
  /\ LET parsed == parseResponse(response) IN
       IF parsed.ok
       THEN /\ plan' = parsed.steps
            /\ result' = [result EXCEPT !.steps = ResultSteps(parsed.steps)]
            /\ i' = 1
            /\ needsMigration' = FALSE
            /\ pc' = "steps"
            /\ UNCHANGED fatal
       ELSE /\ result' = FatalResult(result, parsed.msg)
            /\ fatal' = "plan"
            /\ pc' = "returned"
            /\ UNCHANGED <<plan, i, needsMigration>>
  /\ lastResponse' = response
  /\ UNCHANGED <<request, agentContext, fs, backups, clock, unwritable, backupDirOK,
                 dispatched, migrationRuns, writeLog, calls, fwHist, stepLog,
                 backupsTaken, cli, runs>>

\* One iteration of the step loop.
ExecStep(ticks, migrationOK) ==
  /\ pc = "steps"
  /\ i <= Len(plan)
  \* the clock's advance matters to a step that may back up, drizzle-kit's outcome
  \* to a step that starts it: for the other steps one choice stands for all
  /\ plan[i].type \in BackupKinds \/ ticks = NoTicks
  /\ WithinClock(ticks)
  /\ plan[i].type = "run_migration" \/ migrationOK
  /\ LET step == plan[i]
         r == executeStep(TheWorld(ticks), step, migrationOK)
     IN  /\ dispatched' = Append(dispatched, i)
         /\ fs' = r.w.fs
         /\ backups' = r.w.backups
         /\ clock' = r.w.clock
         /\ writeLog' = r.w.log
         /\ backupsTaken' = r.w.taken
         /\ stepLog' = Append(stepLog, [threw |-> r.threw, files |-> r.files,
                                        wrote |-> r.w.fs # fs \/ r.w.backups # backups])
         /\ migrationRuns' = migrationRuns + r.migs
         /\ IF r.threw
            THEN /\ result' = StepFailed(result, step, r.msg)
                 /\ i' = AfterStepFailure(i, Len(plan))
                 /\ UNCHANGED needsMigration
            ELSE /\ result' = PushFiles(result, r.files)
                 /\ needsMigration' = NeedsMigrationAfter(needsMigration, step)
                 /\ i' = i + 1
  /\ UNCHANGED <<pc, request, agentContext, plan, unwritable, backupDirOK, fatal, planCalls,
                 planContext, lastResponse, calls, fwHist, cli, runs>>

\* The loop is over and no migration is due: success is computed, execute returns.
FinishNoMigration ==
  /\ pc = "steps"
  /\ i > Len(plan)
  /\ ~(needsMigration /\ ~request.skipMigration)
  /\ result' = [result EXCEPT !.success = ComputeSuccess(result)]
  /\ pc' = "returned"
  /\ UNCHANGED <<request, agentContext, plan, i, needsMigration, fs, backups, clock,
                 unwritable, backupDirOK, fatal, dispatched, migrationRuns, planCalls,
                 planContext, writeLog, lastResponse, calls, fwHist,
                 stepLog, backupsTaken, cli, runs>>

\* The loop is over and a migration is due: migrateCommand({generate, push}). It
\* resolves, or on a failure of drizzle-kit ends the process with process.exit(1).
FinishWithMigration(migrationOK) ==
  /\ pc = "steps"
  /\ i > Len(plan)
  /\ needsMigration /\ ~request.skipMigration
  /\ migrationRuns' = migrationRuns + 1
  /\ IF migrationOK
     THEN /\ result' = [result EXCEPT !.migrationCompleted = TRUE,
                                      !.success = ComputeSuccess(result)]
          /\ pc' = "returned"
     ELSE /\ pc' = "exited"
          /\ UNCHANGED result
  /\ UNCHANGED <<request, agentContext, plan, i, needsMigration, fs, backups, clock,
                 unwritable, backupDirOK, fatal, dispatched, planCalls, planContext,
                 writeLog, lastResponse, calls, fwHist,
                 stepLog, backupsTaken, cli, runs>>


\* ---------------------------------------------------------- initial states

\* A component the user wrote: a useState import and an arrow-function entry.
UserComponent ==
  ImportUseState \o <<"\n">> \o ComponentMarker \o <<"\n  return null;\n};\n">>

NoFiles == [p \in Paths |-> Absent]

\* The projects the agent is started in: a fresh one; one with an empty index; one
\* with an index that references nothing yet; one an earlier run has already
\* added table a, its route and its component hook to.
Projects ==
  {NoFiles,
   [NoFiles EXCEPT ![IndexPath] = File(<<>>)],
   [NoFiles EXCEPT ![IndexPath] = File(<<"// schemas">>),
                   ![Comp1] = File(UserComponent)],
   [NoFiles EXCEPT ![IndexPath] = File(<<"// schemas", "\n">> \o exportLine(TableA)),
                   ![SchemaPath(TableA)] =
                     File(generateSchemaFile([tableName |-> TableA, columns |-> <<>>])),
                   ![ApiPath(EndpointE)] = File(<<"// hand-written route">>),
                   ![Comp1] = File(generateComponentUpdate(UserComponent, EndpointE, TableA))]}

\* The permission set-ups: everything writable; some targets read-only; other
\* targets read-only and the backup directory not writable either.
Environments ==
  {[unwritable |-> {}, backupDirOK |-> TRUE],
   [unwritable |-> {ApiPath(EndpointE), IndexPath}, backupDirOK |-> TRUE],
   [unwritable |-> {SchemaPath(TableA), Comp1}, backupDirOK |-> FALSE]}

Requests == [skipAnalysis : BOOLEAN, skipMigration : BOOLEAN]

\* No index merge has been called yet.
NoHistory == [tableName |-> <<>>, count |-> 0, afterFirst |-> Absent, linesBefore |-> 0]

InitCommon ==
  /\ request = [skipAnalysis |-> FALSE, skipMigration |-> FALSE]
  /\ agentContext = 0
  /\ plan = <<>>
  /\ i = 1
  /\ needsMigration = FALSE
  /\ result = InitialResult
  /\ backups = [bp \in BackupPaths |-> Absent]
  /\ clock = 0
  /\ fatal = "none"
  /\ dispatched = <<>>
  /\ migrationRuns = 0
  /\ planCalls = 0
  /\ planContext = 0
  /\ writeLog = {}
  /\ lastResponse = Response("none", FALSE, FALSE, <<>>)
  /\ calls = 0
  /\ fwHist = NoHistory
  /\ stepLog = <<>>
  /\ backupsTaken = 0
  /\ runs = 0

\* No runCommand is in progress: execute is called on the agent directly.
NoCli == [phase |-> "off", dryRun |-> FALSE]

Init ==
  /\ pc = "idle"
  /\ cli = NoCli
  /\ fs \in Projects
  /\ \E env \in Environments : unwritable = env.unwritable /\ backupDirOK = env.backupDirOK
  /\ InitCommon

Next ==
  \/ \E req \in Requests : Execute(req)
  \/ AnalyzeOK
  \/ AnalyzeFail
  \/ \E response \in Responses : Plan(response)
  \/ \E ticks \in Ticks, migrationOK \in BOOLEAN : ExecStep(ticks, migrationOK)
  \/ FinishNoMigration
  \/ \E migrationOK \in BOOLEAN : FinishWithMigration(migrationOK)

Spec == Init /\ [][Next]_vars


\* ------------------------------------------ several calls on one agent

\* The responses of the plan source in the specification of several calls.
ResponsesAgain ==
  {Response("apiError", FALSE, FALSE, <<>>)}
    \cup {Response("json", TRUE, TRUE, steps) :
            steps \in SeqUpTo({ApiStep, MigrationStep, UnknownStep}, 1)}

\* A further call of execute on the same DatabaseAgent after one has returned:
\* the locals of execute start anew, this.projectContext is what the earlier
\* calls left.
ExecuteAgain(req) ==
  /\ pc = "returned"
  /\ runs + 1 < MaxRuns
  /\ runs' = runs + 1
  /\ request' = req
  /\ result' = InitialResult
  /\ pc' = IF req.skipAnalysis THEN "plan" ELSE "analyze"
  /\ plan' = <<>>
  /\ i' = 1
  /\ needsMigration' = FALSE
  /\ fatal' = "none"
  /\ dispatched' = <<>>
  /\ stepLog' = <<>>
  /\ UNCHANGED <<agentContext, fs, backups, clock, unwritable, backupDirOK, migrationRuns,
                 planCalls, planContext, writeLog, lastResponse, calls, fwHist, backupsTaken,
                 cli>>

InitAgain ==
  /\ pc = "idle"
  /\ cli = NoCli
  /\ fs \in {NoFiles, [NoFiles EXCEPT ![ApiPath(EndpointE)] = File(<<"// hand-written route">>)]}
  /\ unwritable = {}
  /\ backupDirOK = TRUE
  /\ InitCommon

NextAgain ==
  \/ \E req \in Requests : Execute(req)
  \/ \E req \in Requests : ExecuteAgain(req)
  \/ AnalyzeOK
  \/ AnalyzeFail
  \/ \E response \in ResponsesAgain : Plan(response)
  \/ \E ticks \in Ticks, migrationOK \in BOOLEAN : ExecStep(ticks, migrationOK)
  \/ FinishNoMigration
  \/ \E migrationOK \in BOOLEAN : FinishWithMigration(migrationOK)

SpecAgain == InitAgain /\ [][NextAgain]_vars


\* ------------------------------------------- run-command specification

\* runCommand(query, options) up to its call of agent.execute: the request always
\* analyses, and skips the end-of-run migration exactly in dry-run mode.
RunCommand(dryRun) ==
  /\ cli.phase = "start"
  /\ pc = "idle"
  /\ cli' = [phase |-> "executing", dryRun |-> dryRun]
  /\ request' = [skipAnalysis |-> FALSE, skipMigration |-> dryRun]
  /\ result' = InitialResult
  /\ pc' = "analyze"
  /\ UNCHANGED <<agentContext, plan, i, needsMigration, fs, backups, clock, unwritable,
                 backupDirOK, fatal, dispatched, migrationRuns, planCalls, planContext,
                 writeLog, lastResponse, calls, fwHist, stepLog, backupsTaken, runs>>

\* execute has returned in dry-run mode: "Dry run complete - no changes made",
\* result.files are listed, runCommand returns.
DryRunReport ==
  /\ cli.phase = "executing"
  /\ pc = "returned"
  /\ cli.dryRun
  /\ cli' = [cli EXCEPT !.phase = "dryRunComplete"]
  /\ UNCHANGED <<pc, request, agentContext, plan, i, needsMigration, result, fs, backups,
                 clock, unwritable, backupDirOK, fatal, dispatched, migrationRuns, planCalls,
                 planContext, writeLog, lastResponse, calls, fwHist, stepLog, backupsTaken,
                 runs>>

\* execute has returned otherwise: the plan is displayed, confirmExecution asks;
\* on no the run is "cancelled", on yes the result is reported.
ConfirmExecution(shouldExecute) ==
  /\ cli.phase = "executing"
  /\ pc = "returned"
  /\ ~cli.dryRun
  /\ cli' = [cli EXCEPT !.phase = IF shouldExecute THEN "reported" ELSE "cancelled"]
  /\ UNCHANGED <<pc, request, agentContext, plan, i, needsMigration, result, fs, backups,
                 clock, unwritable, backupDirOK, fatal, dispatched, migrationRuns, planCalls,
                 planContext, writeLog, lastResponse, calls, fwHist, stepLog, backupsTaken,
                 runs>>

InitRun ==
  /\ pc = "idle"
  /\ cli = [phase |-> "start", dryRun |-> FALSE]
  /\ fs \in Projects
  /\ \E env \in Environments : unwritable = env.unwritable /\ backupDirOK = env.backupDirOK
  /\ InitCommon

NextRun ==
  \/ \E dryRun \in BOOLEAN : RunCommand(dryRun)
  \/ AnalyzeOK
  \/ AnalyzeFail
  \/ \E response \in Responses : Plan(response)
  \/ \E ticks \in Ticks, migrationOK \in BOOLEAN : ExecStep(ticks, migrationOK)
  \/ FinishNoMigration
  \/ \E migrationOK \in BOOLEAN : FinishWithMigration(migrationOK)
  \/ DryRunReport
  \/ \E shouldExecute \in BOOLEAN : ConfirmExecution(shouldExecute)

SpecRun == InitRun /\ [][NextRun]_vars


\* ------------------------------------- FileWriter-level specification

\* The aggregate index files the FileWriter is called on: none, an empty one,
\* a heading only, the line of table a present, the line of table a inside a
\* comment, the line of table ba present.
IndexFiles ==
  {Absent,
   File(<<>>),
   File(<<"// schemas">>),
   File(<<"// schemas", "\n">> \o exportLine(TableA)),
   File(<<"// ">> \o exportLine(TableA)),
   File(exportLine(TableBA))}

InitFW ==
  /\ pc = "filewriter"
  /\ cli = NoCli
  /\ \E index \in IndexFiles : fs = [NoFiles EXCEPT ![IndexPath] = index]
  /\ \E env \in Environments : unwritable = env.unwritable /\ backupDirOK = env.backupDirOK
  /\ InitCommon

\* The history after updateMainSchema(tableName) took the index from `before` to
\* `after`: calls with the same table in a row are counted, the index left by
\* the first of them is kept.
Merged(h, tableName, before, after) ==
  IF h.count >= 1 /\ h.tableName = tableName
  THEN [h EXCEPT !.count = @ + 1]
  ELSE [tableName |-> tableName, count |-> 1, afterFirst |-> after,
        linesBefore |-> Occurrences(before.content, exportLine(tableName))]

\* A direct call of FileWriter.updateMainSchema(tableName).
FW_UpdateMainSchema(tableName, ticks) ==
  /\ pc = "filewriter"
  /\ calls < MaxCalls
  /\ WithinClock(ticks)
  /\ calls' = calls + 1
  /\ LET w == updateMainSchema(TheWorld(ticks), tableName) IN
       /\ fs' = w.fs
       /\ backups' = w.backups
       /\ clock' = w.clock
       /\ writeLog' = w.log
       /\ backupsTaken' = w.taken
       /\ fwHist' = Merged(fwHist, tableName, fs[IndexPath], w.fs[IndexPath])
  /\ UNCHANGED <<pc, request, agentContext, plan, i, needsMigration, result, unwritable,
                 backupDirOK, fatal, dispatched, migrationRuns, planCalls, planContext,
                 lastResponse, stepLog, cli, runs>>

\* Columns a caller may pass that carry the names generateSchemaFile uses itself.
IdColumn == [name |-> "id", type |-> "serial(\"id\").primaryKey()"]
CreatedAtColumn == [name |-> "createdAt", type |-> "timestamp(\"created_at\")"]
UpdatedAtColumn == [name |-> "updatedAt", type |-> "timestamp(\"updated_at\")"]

\* The column lists createSchema is called with: none, an identity column, the
\* two timestamp columns.
ColumnLists == {<<>>, <<IdColumn>>, <<CreatedAtColumn, UpdatedAtColumn>>}

\* A direct call of FileWriter.createSchema for a table: it calls
\* updateMainSchema unless writing the definition file threw.
FW_CreateSchema(tableName, columns, ticks) ==
  /\ pc = "filewriter"
  /\ calls < MaxCalls
  /\ WithinClock(ticks)
  /\ calls' = calls + 1
  /\ LET r == createSchema(TheWorld(ticks), [tableName |-> tableName, columns |-> columns]) IN
       /\ fs' = r.w.fs
       /\ backups' = r.w.backups
       /\ clock' = r.w.clock
       /\ writeLog' = r.w.log
       /\ backupsTaken' = r.w.taken
       /\ fwHist' = IF r.threw THEN fwHist
                    ELSE Merged(fwHist, tableName, fs[IndexPath], r.w.fs[IndexPath])
  /\ UNCHANGED <<pc, request, agentContext, plan, i, needsMigration, result, unwritable,
                 backupDirOK, fatal, dispatched, migrationRuns, planCalls, planContext,
                 lastResponse, stepLog, cli, runs>>

NextFW ==
  \/ \E tableName \in TableNames, ticks \in Ticks : FW_UpdateMainSchema(tableName, ticks)
  \/ \E tableName \in TableNames, columns \in ColumnLists, ticks \in Ticks :
       FW_CreateSchema(tableName, columns, ticks)

SpecFW == InitFW /\ [][NextFW]_vars


\* ------------------------------------- component-update specification

\* A second endpoint, next to EndpointE.
EndpointF == <<"f">>
Endpoints == {EndpointE, EndpointF}

\* The component sources updateComponent is called on: the user's component; one
\* whose import has useEffect already; one with the import and no arrow-function
\* entry; one with a useState-only import followed by a second import; one that
\* uses useState without importing it; one without useState; an empty file; and
\* components an earlier update was applied to.
ComponentSources ==
  {UserComponent,
   ImportUseStateEffect \o <<"\n">> \o ComponentMarker \o <<"\n  return null;\n};\n">>,
   ImportUseState \o <<"\nexport default function Component() { return null; }\n">>,
   ImportUseState \o <<"\n">> \o ImportUseStateEffect \o <<"\n">> \o ComponentMarker,
   ComponentMarker \o <<" const [x] = React.", "useState", "(0);\n};\n">>,
   ComponentMarker \o <<"\n  return null;\n};\n">>,
   <<>>,
   generateComponentUpdate(UserComponent, EndpointE, TableBA),
   generateComponentUpdate(UserComponent, EndpointF, TableA)}

InitComp ==
  /\ pc = "component"
  /\ cli = NoCli
  /\ \E source \in ComponentSources : fs = [NoFiles EXCEPT ![Comp1] = File(source)]
  /\ \E env \in Environments : unwritable = env.unwritable /\ backupDirOK = env.backupDirOK
  /\ InitCommon

\* A direct call of FileWriter.updateComponent on the component, as the
\* update_component step makes it; the history counts the calls for the same
\* table in a row and keeps the component the first of them left.
FW_UpdateComponent(tableName, ticks) ==
  /\ pc = "component"
  /\ calls < MaxCalls
  /\ WithinClock(ticks)
  /\ calls' = calls + 1
  /\ LET w == updateComponent(TheWorld(ticks), Comp1, EndpointE, tableName) IN
       /\ fs' = w.fs
       /\ backups' = w.backups
       /\ clock' = w.clock
       /\ writeLog' = w.log
       /\ backupsTaken' = w.taken
       /\ fwHist' = Merged(fwHist, tableName, fs[Comp1], w.fs[Comp1])
  /\ UNCHANGED <<pc, request, agentContext, plan, i, needsMigration, result, unwritable,
                 backupDirOK, fatal, dispatched, migrationRuns, planCalls, planContext,
                 lastResponse, stepLog, cli, runs>>

NextComp ==
  \E tableName \in TableNames, ticks \in Ticks : FW_UpdateComponent(tableName, ticks)

SpecComp == InitComp /\ [][NextComp]_vars

\* ------------------------------------------------------------------ claims

\* Some step of the plan is of a kind that asks for a migration.
PlanAsksMigration ==
  \E k \in 1..Len(plan) : plan[k].type \in {"create_schema", "run_migration"}

\* C1: whenever execute has returned, on the normal path or on the fatal
\* analysis/planning path, result.success is true exactly when result.errors is
\* empty, whatever migrationCompleted is.
C1_SuccessIffNoErrors ==
  pc = "returned" => (result.success <=> Len(result.errors) = 0)

\* C1 witness: a call that returned success with steps run and no migration completed.
C1_Witness ==
  /\ pc = "returned"
  /\ result.success
  /\ ~result.migrationCompleted
  /\ Len(dispatched) >= 1

\* C2: the steps are handed to executeStep one by one in plan order, each at most
\* once, and once the loop is over every step of the plan has been handed over
\* exactly once, whichever of them threw.
C2_EveryStepDispatchedInOrder ==
  /\ dispatched = [k \in 1..Len(dispatched) |-> k]
  /\ Len(dispatched) <= Len(plan)
  /\ pc = "steps" => Len(dispatched) = i - 1
  /\ (pc \in {"returned", "exited"} /\ fatal = "none") => Len(dispatched) = Len(plan)

\* C2 witness: the first of two steps threw and the second was dispatched and
\* completed with a file.
C2_Witness ==
  /\ pc = "returned"
  /\ Len(plan) = 2
  /\ plan[1].type = "drop_table"
  /\ Len(result.errors) = 1
  /\ Len(result.files) >= 1
  /\ dispatched = <<1, 2>>

\* C3: a call whose plan has a create_schema or run_migration step, made with
\* skipMigration false, starts the migration procedure (FileWriter.runMigration
\* and migrateCommand counted together) exactly once.
C3_MigrationExactlyOnce ==
  (pc = "returned" /\ fatal = "none" /\ PlanAsksMigration /\ ~request.skipMigration)
    => migrationRuns = 1

\* C4: a call made with skipMigration true never starts the migration procedure.
C4_SkipMigrationNeverMigrates ==
  request.skipMigration => migrationRuns = 0

\* Nothing of the project or the database has been touched.
NothingDone ==
  /\ dispatched = <<>>
  /\ writeLog = {}
  /\ fs \in Projects
  /\ backups = [bp \in BackupPaths |-> Absent]
  /\ migrationRuns = 0

\* C5: when analyzeProject fails, the plan source is not called, no step is
\* dispatched, nothing is written, no migration is started, and execute returns
\* success false, exactly one error (the analysis failure), no files, no steps.
C5_AnalysisFailureIsFatal ==
  fatal = "analysis" =>
    /\ pc = "returned"
    /\ planCalls = 0
    /\ NothingDone
    /\ ~result.success
    /\ Len(result.errors) = 1
    /\ result.errors[1][1] = "Project analysis failed: "
    /\ result.files = <<>>
    /\ result.steps = <<>>

\* C5 witness: a call with skipAnalysis false whose analysis failed.
C5_Witness ==
  /\ fatal = "analysis"
  /\ ~request.skipAnalysis
  /\ pc = "returned"

\* The response has no JSON, JSON that does not parse, or a plan object without a
\* description or without a list of steps.
Unparseable(response) ==
  \/ response.kind \in {"noJson", "badJson"}
  \/ response.kind = "json" /\ (~response.description \/ ~response.stepsIsArray)

\* C6: a response without a JSON payload, with unparseable JSON or with an
\* invalid plan structure makes generateExecutionPlan fail; and whenever it fails,
\* no step is dispatched, nothing is written, no migration is started, and
\* execute returns success false, exactly one error and no files.
C6_PlanFailureIsFatal ==
  /\ (planCalls > 0 /\ Unparseable(lastResponse)) => fatal = "plan"
  /\ fatal = "plan" =>
       /\ pc = "returned"
       /\ NothingDone
       /\ ~result.success
       /\ Len(result.errors) = 1
       /\ result.files = <<>>

\* C6 witness: the plan source answered with text that holds no JSON.
C6_Witness ==
  /\ fatal = "plan"
  /\ lastResponse.kind = "noJson"
  /\ result.errors =
       <<<<"AI processing failed: ", "Failed to parse AI response: ", "No JSON found in response">>>>

\* C7: once the plan source has returned a plan, result.steps is the plan's
\* step sequence, same length and order, also after steps have failed.
C7_StepsArePlanSteps ==
  (pc \in {"steps", "returned", "exited"} /\ fatal = "none") =>
    /\ result.steps = plan
    /\ Len(result.steps) = Len(lastResponse.steps)
    /\ \A k \in 1..Len(result.steps) : result.steps[k] = ParsedStep(lastResponse.steps[k])

\* C7 witness: a plan of two steps, both of which failed, has been returned.
C7_Witness ==
  /\ pc = "returned"
  /\ Len(plan) = 2
  /\ Len(result.errors) = 2
  /\ Len(result.steps) = 2

\* C8: every write of a project file that existed at the moment of the write was
\* preceded by a backup holding its prior content (stated for a backup directory
\* that can be written).
C8_BackupBeforeOverwrite ==
  backupDirOK => \A e \in writeLog : e.existed => e.backedUp

\* The create_schema steps of the call that completed, by table.
SchemaStepSucceeded(tableName) ==
  \E k \in 1..Len(result.files) : result.files[k] = SchemaPath(tableName)

\* C10: after the successful create_schema steps of a call, the aggregate index
\* holds exactly one reference line for each of their tables, an index that was
\* absent counting as empty.
C10_OneReferenceLinePerTable ==
  pc = "returned" =>
    \A t \in TableNames :
      SchemaStepSucceeded(t) =>
        /\ fs[IndexPath].exists
        /\ Occurrences(fs[IndexPath].content, exportLine(t)) = 1


\* C9: calling updateMainSchema again with the same table name leaves the index
\* byte-identical to what the first call left; and an index that did not hold
\* the table's line before holds it exactly once afterwards, however often the
\* call is repeated.
C9_UpdateMainSchemaIdempotent ==
  fwHist.count >= 1 =>
    /\ fs[IndexPath] = fwHist.afterFirst
    /\ (fs[IndexPath].exists /\ IndexPath \notin unwritable /\ fwHist.linesBefore = 0)
         => Occurrences(fs[IndexPath].content, exportLine(fwHist.tableName)) = 1

\* C9 witness: the same table merged three times in a row into an index that did
\* not hold its line; the line is there once.
C9_Witness ==
  /\ fwHist.count = 3
  /\ fwHist.linesBefore = 0
  /\ fs[IndexPath].exists
  /\ Occurrences(fs[IndexPath].content, exportLine(fwHist.tableName)) = 1

\* C11 (as claimed): in a dry run of runCommand no file is written, no backup is
\* made, the migration procedure is never started and no step is executed.
C11_DryRunChangesNothing ==
  (cli.dryRun /\ cli.phase \in {"executing", "dryRunComplete"}) =>
    /\ writeLog = {}
    /\ backupsTaken = 0
    /\ migrationRuns = 0
    /\ dispatched = <<>>

\* The paths in result.files.
ReportedFiles == {result.files[k] : k \in 1..Len(result.files)}

\* Step k has been dispatched and is an update_component step with componentPaths.
UpdateStepAt(k) ==
  /\ k \in 1..Len(stepLog)
  /\ plan[k].type = "update_component"
  /\ "componentPaths" \in plan[k].has

\* C12 (as claimed): an update_component step that targets a path that does not
\* exist raises a step error and does not report that path; the run ends with
\* success false.
C12_MissingUpdateTargetIsAnError ==
  \A k \in 1..Len(stepLog) :
    (UpdateStepAt(k) /\ \E q \in 1..Len(plan[k].componentPaths) :
                          ~fs[plan[k].componentPaths[q]].exists)
      => /\ stepLog[k].threw
         /\ \A q \in 1..Len(plan[k].componentPaths) :
              ~fs[plan[k].componentPaths[q]].exists
                => plan[k].componentPaths[q] \notin ReportedFiles
         /\ pc = "returned" => ~result.success

\* Every step of the plan is of the kind given.
PlanOnlyOf(kind) == Len(plan) >= 1 /\ \A k \in 1..Len(plan) : plan[k].type = kind

\* C13 (as claimed): an update_component step with several paths never fails as
\* a whole, and the paths it contributes to result.files are exactly the paths
\* that were read and rewritten.
C13_UpdateReportsOnlyRewrittenPaths ==
  /\ \A k \in 1..Len(stepLog) : UpdateStepAt(k) => ~stepLog[k].threw
  /\ PlanOnlyOf("update_component") => ReportedFiles = {e.path : e \in writeLog}

\* C14 (as claimed): a create_component step never writes over a file that is
\* there when it runs: in a run of create_component steps only, no write finds
\* its target existing.
C14_CreateComponentNeverOverwrites ==
  PlanOnlyOf("create_component") => \A e \in writeLog : ~e.existed

\* C15 (as claimed): an analyze_project step completes without a step error and
\* writes nothing.
C15_AnalyzeProjectStepCompletes ==
  \A k \in 1..Len(stepLog) :
    plan[k].type = "analyze_project" => ~stepLog[k].threw /\ ~stepLog[k].wrote

\* The closed set of step kinds (the ExecutionStep type union).
StepKinds ==
  {"create_schema", "create_api", "update_component", "create_component", "run_migration",
   "analyze_project"}

\* The number of steps among the first k dispatched that threw.
ThrownUpTo(k) == Cardinality({j \in 1..k : stepLog[j].threw})

\* The path list a step of the plan returns when it completes.
StepPaths(step) ==
  CASE step.type = "create_schema" -> <<SchemaPath(TableNameOf(step))>>
    [] step.type = "create_api" -> <<ApiPath(EndpointOf(step))>>
    [] step.type \in {"update_component", "create_component"} -> step.componentPaths
    [] OTHER -> <<>>

\* The path lists of the steps among the first n that completed, in plan order.
RECURSIVE FilesOfCompleted(_)
FilesOfCompleted(n) ==
  IF n = 0 THEN <<>>
  ELSE FilesOfCompleted(n - 1) \o (IF stepLog[n].threw THEN <<>> ELSE StepPaths(plan[n]))

\* C16: a step of a kind outside the closed set raises; one entry, naming the
\* step, is appended to result.errors for it; it writes nothing and adds no path
\* to result.files; and the loop goes on to the next step.
C16_UnknownKindRaises ==
  \A k \in 1..Len(stepLog) :
    plan[k].type \notin StepKinds =>
      /\ stepLog[k].threw
      /\ ~stepLog[k].wrote
      /\ Len(result.errors) = ThrownUpTo(Len(stepLog))
      /\ result.errors[ThrownUpTo(k)] =
           <<"Step ", plan[k].type, " failed: ", "Unknown step type: ", plan[k].type>>
      /\ result.files = FilesOfCompleted(Len(stepLog))
      /\ dispatched = [j \in 1..Len(stepLog) |-> j]
      /\ pc = "returned" => Len(stepLog) = Len(plan)

\* C16 witness: a plan of an unknown kind followed by a create_api has returned
\* with the one error and the route's path.
C16_Witness ==
  /\ pc = "returned"
  /\ Len(plan) = 2
  /\ plan[1].type = "drop_table"
  /\ plan[2].type = "create_api"
  /\ Len(result.errors) = 1
  /\ result.files = <<ApiPath(EndpointE)>>
  /\ fs[ApiPath(EndpointE)].exists

\* C17 (as claimed): a failure of the end-of-run migrateCommand never ends the
\* process: execute goes on to return its result.
C17_MigrationFailureReturns == pc # "exited"

\* C18 (as claimed): every backup taken gets a path of its own, so the backups
\* on disk are as many as the backups taken.
C18_BackupPathsDistinct ==
  backupsTaken = Cardinality({bp \in BackupPaths : backups[bp].exists})

\* A payload step that lacks its kind or its details.
Incomplete(step) == step.type = MissingType \/ ~step.hasDetails

\* C19 (as claimed): parseResponse fails for a payload without description,
\* with a steps field that is no sequence, or with a step lacking kind or details.
C19_ParseRejectsIncompletePayload ==
  (lastResponse.kind = "json"
     /\ (\/ ~lastResponse.description
         \/ ~lastResponse.stepsIsArray
         \/ \E k \in 1..Len(lastResponse.steps) : Incomplete(lastResponse.steps[k])))
    => fatal = "plan"

\* C20: when execute returns on the non-fatal path, result.files is the
\* concatenation, in plan order, of the path lists of the steps that completed.
C20_FilesAreCompletedStepsPaths ==
  (pc = "returned" /\ fatal = "none") =>
    /\ Len(stepLog) = Len(plan)
    /\ result.files = FilesOfCompleted(Len(plan))

\* C20 witness: a create_api step completed, then a create_schema step whose
\* details cannot be parsed raised before writing; only the route is reported.
C20_Witness ==
  /\ pc = "returned"
  /\ fatal = "none"
  /\ Len(plan) = 2
  /\ plan[1].type = "create_api"
  /\ plan[2].type = "create_schema"
  /\ ~stepLog[1].threw
  /\ stepLog[2].threw /\ ~stepLog[2].wrote
  /\ result.files = <<ApiPath(EndpointE)>>

\* The index in the plan of the n-th step that threw.
RaisedStep(n) == CHOOSE k \in 1..Len(stepLog) : stepLog[k].threw /\ ThrownUpTo(k) = n

\* C21: when execute returns on the non-fatal path, result.errors has one entry
\* per step that raised, in plan order, each naming its step, and nothing else:
\* no entry comes from a step that completed.
C21_ErrorsAreRaisedStepsInOrder ==
  (pc = "returned" /\ fatal = "none") =>
    /\ Len(stepLog) = Len(plan)
    /\ Len(result.errors) = ThrownUpTo(Len(plan))
    /\ \A n \in 1..Len(result.errors) :
         SubSeq(result.errors[n], 1, 3) = <<"Step ", plan[RaisedStep(n)].type, " failed: ">>

\* C21 witness: a run has returned in which two steps of different kinds raised.
C21_Witness ==
  /\ pc = "returned"
  /\ fatal = "none"
  /\ Len(plan) = 2
  /\ stepLog[1].threw /\ stepLog[2].threw
  /\ plan[1].type # plan[2].type
  /\ Len(result.errors) = 2

\* The number of column lines of the given name in a schema definition.
ColumnCount(content, name) == Occurrences(content, <<"  ", name, ": ">>)

\* C22 (as claimed): every definition file createSchema generates has exactly
\* one id column, one createdAt column and one updatedAt column, whatever the
\* columns it was given.
C22_OneIdentityAndTimestampColumns ==
  \A tableName \in TableNames :
    fs[SchemaPath(tableName)].exists =>
      /\ ColumnCount(fs[SchemaPath(tableName)].content, "id") = 1
      /\ ColumnCount(fs[SchemaPath(tableName)].content, "createdAt") = 1
      /\ ColumnCount(fs[SchemaPath(tableName)].content, "updatedAt") = 1

\* a is a prefix of b.
IsPrefix(a, b) == Len(a) <= Len(b) /\ SubSeq(b, 1, Len(a)) = a

\* C23: a FileWriter call leaves an existing index in place with its prior
\* content as a prefix of the new content, and changes it only when the
\* reference line of the table it was called for was not in it.
C23_UpdateMainSchemaOnlyAppends ==
  [][fs[IndexPath].exists =>
       /\ fs'[IndexPath].exists
       /\ IsPrefix(fs[IndexPath].content, fs'[IndexPath].content)
       /\ fs'[IndexPath] # fs[IndexPath]
            => ~Includes(fs[IndexPath].content, exportLine(fwHist'.tableName))]_vars

\* C23 witness: the line of table ba has been appended to an index that held a
\* heading.
C23_Witness ==
  /\ pc = "filewriter"
  /\ calls >= 1
  /\ fwHist.tableName = TableBA
  /\ fs[IndexPath].content = <<"// schemas", "\n">> \o exportLine(TableBA)

\* The details of a file-producing step hold every field its kind reads.
CompleteDetails(step) ==
  CASE step.type = "create_schema" -> {"tableName", "columns"} \subseteq step.has
    [] step.type = "create_api" -> "endpoint" \in step.has
    [] step.type \in {"update_component", "create_component"} -> "componentPaths" \in step.has
    [] OTHER -> FALSE

\* C24: for a file-producing step with complete details that completed, the
\* paths the plan source derived are the paths executeStep returned, in the
\* same order; a run_migration step derives no path and returns none; and
\* deriving the paths writes nothing.
C24_DerivedPathsAreReturnedPaths ==
  /\ \A k \in 1..Len(stepLog) :
       /\ (CompleteDetails(plan[k]) /\ ~stepLog[k].threw) => plan[k].files = stepLog[k].files
       /\ plan[k].type = "run_migration" => plan[k].files = <<>> /\ stepLog[k].files = <<>>
  /\ (pc = "steps" /\ stepLog = <<>>) => writeLog = {} /\ backupsTaken = 0

\* C24 witness: an update_component step with two paths and a create_schema step
\* have completed with the paths derived for them.
C24_Witness ==
  /\ Len(stepLog) = 2
  /\ plan[1].type = "update_component"
  /\ plan[2].type = "create_schema"
  /\ ~stepLog[1].threw /\ ~stepLog[2].threw
  /\ plan[1].files = <<Comp2, Comp1>> /\ stepLog[1].files = <<Comp2, Comp1>>
  /\ plan[2].files = stepLog[2].files /\ Len(plan[2].files) = 1

\* C25: needsMigration turns true only in a loop iteration whose step is a
\* create_schema or run_migration step that completed; it stays true while the
\* loop runs; and the loop is left only after the last step, with the
\* end-of-run migrateCommand started exactly when needsMigration is true and
\* skipMigration is false.
C25_NeedsMigrationGate ==
  [][/\ (needsMigration' /\ ~needsMigration) =>
          /\ pc = "steps" /\ i <= Len(plan)
          /\ plan[i].type \in {"create_schema", "run_migration"}
          /\ Len(stepLog') = Len(stepLog) + 1
          /\ ~stepLog'[Len(stepLog')].threw
     /\ (needsMigration /\ pc = "steps") => needsMigration'
     /\ (pc = "steps" /\ pc' # "steps") =>
          /\ i > Len(plan)
          /\ (migrationRuns' = migrationRuns + 1) <=> (needsMigration /\ ~request.skipMigration)
          /\ migrationRuns' \in {migrationRuns, migrationRuns + 1}]_vars

\* C25 witness: a create_schema step completed, a create_api step followed, and
\* the end-of-run migration has run.
C25_Witness ==
  /\ pc = "returned"
  /\ Len(plan) = 2
  /\ plan[1].type = "create_schema"
  /\ plan[2].type = "create_api"
  /\ ~stepLog[1].threw
  /\ needsMigration
  /\ ~request.skipMigration
  /\ result.migrationCompleted
  /\ migrationRuns = 1

\* C26 (as claimed): in a run of runCommand without dry-run, as long as
\* confirmExecution has not answered yes, and after it answered no, no file has
\* been written, no backup made and no migration started.
C26_NothingBeforeConfirmation ==
  (~cli.dryRun /\ cli.phase \in {"executing", "cancelled"}) =>
    /\ writeLog = {}
    /\ backupsTaken = 0
    /\ migrationRuns = 0

\* C27 (as claimed): when execute returns, every project file the run wrote is
\* listed in result.files.
C27_EveryWrittenFileIsReported ==
  (pc = "returned" /\ fatal = "none") => \A e \in writeLog : e.path \in ReportedFiles

\* C28 (as claimed): once a call with skipAnalysis has asked for its plan, the
\* context it passed to the plan source is absent and its result holds no
\* projectContext, whatever earlier calls on the agent did.
C28_SkippedAnalysisPassesNoContext ==
  (request.skipAnalysis /\ pc \in {"steps", "returned", "exited"}) =>
    /\ planContext = 0
    /\ result.projectContext = 0

\* C29: a loop iteration adds the reference line of a table to the index only
\* if its step is a create_schema step for that table that completed and the
\* definition file of the table now holds what the step generated; and a
\* create_schema step that raises leaves the index as it was.
C29_ReferenceOnlyAfterDefinition ==
  [][(pc = "steps" /\ Len(stepLog') = Len(stepLog) + 1) =>
       /\ \A tableName \in TableNames :
            Occurrences(fs'[IndexPath].content, exportLine(tableName))
                > Occurrences(fs[IndexPath].content, exportLine(tableName))
              => /\ plan[i].type = "create_schema"
                 /\ TableNameOf(plan[i]) = tableName
                 /\ ~stepLog'[Len(stepLog')].threw
                 /\ fs'[SchemaPath(tableName)] =
                      File(generateSchemaFile(parseSchemaFromStep(plan[i])))
       /\ (plan[i].type = "create_schema" /\ stepLog'[Len(stepLog')].threw)
            => fs'[IndexPath] = fs[IndexPath]]_vars

\* C29 witness: a create_schema step for table ba has completed; the index
\* references ba and the definition file of ba is there.
C29_Witness ==
  /\ Len(stepLog) >= 1
  /\ plan[1].type = "create_schema"
  /\ TableNameOf(plan[1]) = TableBA
  /\ ~stepLog[1].threw
  /\ Includes(fs[IndexPath].content, exportLine(TableBA))
  /\ fs[SchemaPath(TableBA)].exists

\* C30: applying generateComponentUpdate to its own output, for the same
\* endpoint and table, gives that output again, for every component content a
\* call starts from or leaves; and an update repeated for the same table leaves
\* the component as the first update left it.
C30_ComponentUpdateIdempotent ==
  /\ \A endpoint \in Endpoints, tableName \in TableNames :
       LET once == generateComponentUpdate(fs[Comp1].content, endpoint, tableName) IN
         generateComponentUpdate(once, endpoint, tableName) = once
  /\ fwHist.count >= 1 => fs[Comp1] = fwHist.afterFirst

\* C30 witness: the update for table a was applied three times in a row to the
\* user's component; the import has useEffect and the data-fetch block is there
\* once.
C30_Witness ==
  /\ pc = "component"
  /\ fwHist.count = 3
  /\ fwHist.tableName = TableA
  /\ fs[Comp1].content = generateComponentUpdate(UserComponent, EndpointE, TableA)
  /\ Occurrences(fs[Comp1].content, fetchHook(EndpointE, TableA)) = 1
  /\ Occurrences(fs[Comp1].content, <<"useEffect", " } from \"react\";">>) = 1
  /\ \E bp \in BackupPaths : backups[bp].exists /\ backups[bp].content = fs[Comp1].content

====
